---------------------------- MODULE Spec2Model ----------------------------
(***************************************************************************)
(* Transform-domain steganography: the bit-embedding / extraction engine   *)
(* of the repository (dct_stego.py, wavelet_stego.py, dft_stego.py,        *)
(* svd_stego.py, lbp_stego.py, audio_dct_stego.py, audio_wavelet_stego.py, *)
(* reliable_stego.py, simple_dft_stego.py, unicode_handler.py,             *)
(* stego_base.py).                                                         *)
(*                                                                         *)
(* Numbers.  A coefficient is held in half-units: the integer c2 stands    *)
(* for the real value c2/2, so that step/2 is an integer for every integer *)
(* step.  A pixel p (0..255) is held as 2*p.  Comparisons of a fractional  *)
(* part with 0.25, 0.3, 0.2 ... are made exactly, by cross-multiplying.    *)
(* The forward/inverse transform of a unit is taken to be lossless: the    *)
(* carrier is the map from coefficient coordinates to coefficient values.  *)
(*                                                                         *)
(* Text.  A string is a sequence of code points, a bitstream a sequence of *)
(* 0/1.                                                                    *)
(***************************************************************************)
EXTENDS Integers, Sequences, FiniteSets, TLC

(***************************************************************************)
(* Bounds of the model                                                     *)
(***************************************************************************)
MaxMsgLen == 2

MaxCodecLen == 2

\* largest coefficient magnitude (in half-units) and largest step of the
\* modulator specification
MaxCoef == 12

MaxStep == 5

\* largest height and width of the position-selector specification
MaxDim == 17

\* longest decoded result handed to the plausibility check
MaxResultLen == 90

(***************************************************************************)
(* Program constants                                                       *)
(***************************************************************************)
BlockSize == 8

AudioBlockSize == 1024

ImageScanCap == 50000

LbpScanCap == 10000

AudioWaveletScanCap == 10000

AudioDctBlockCap == 1000

ReliableScanCap == 100000

SimpleDftScanCap == 16384

SimpleDftMinBits == 24

SimpleDftMaxRecover == 8000

StrideY == 2

StrideX == 4

ReplacementChar == 65533

QuestionMark == 63

\* "ï¿½", the three-character placeholder of wavelet_stego.py
WaveletPlaceholder == <<239, 191, 189>>

\* coeff_indices of audio_dct_stego.py
CoeffIndices == <<80, 128, 192, 256>>

DomainVariants ==
  {"DCT", "Wavelet", "DFT", "SVD", "LBP", "AudioDCT", "AudioWavelet"}

LsbVariants == {"Reliable", "SimpleDFT"}

Variants == DomainVariants \cup LsbVariants

\* A text is a sequence of code points.  The values that stand where a text
\* could but are none (an absent side file, Python's None) are one-element
\* sequences of a negative number, unequal to every text.
NoFile == <<-1>>

None == <<-2>>

\* an absent or unreadable carrier file; a present one is <<carrier>>
NoCarrier == <<>>

(***************************************************************************)
(* Sequences                                                               *)
(***************************************************************************)
RECURSIVE Flatten(_)
Flatten(ss) == IF ss = <<>> THEN <<>> ELSE Head(ss) \o Flatten(Tail(ss))

Zeros(n) == [i \in 1..n |-> 0]

Min(a, b) == IF a <= b THEN a ELSE b

Max(a, b) == IF a >= b THEN a ELSE b

\* s[:-n] of Python, for 0 < n
DropLast(s, n) == SubSeq(s, 1, Len(s) - n)

\* s[-n:] of Python, for 0 < n <= Len(s)
LastN(s, n) == SubSeq(s, Len(s) - n + 1, Len(s))

RECURSIVE Pow2(_)
Pow2(n) == IF n = 0 THEN 1 ELSE 2 * Pow2(n - 1)

(***************************************************************************)
(* Message codec: text -> bits                                             *)
(***************************************************************************)
\* one byte as 8 bits, most significant bit first: bin(byte)[2:].zfill(8)
ByteBits(b) == [i \in 1..8 |-> (b \div Pow2(8 - i)) % 2]

\* the binary digits of n >= 1, most significant first
RECURSIVE BinDigits(_)
BinDigits(n) == IF n <= 1 THEN <<n>> ELSE BinDigits(n \div 2) \o <<n % 2>>

\* format(ord(c), '08b'): at least 8 digits, more when the code point needs them
Format08b(cp) == IF cp < 256 THEN ByteBits(cp) ELSE BinDigits(cp)

\* ''.join(format(ord(c), '08b') for c in message)
OrdBits(message) == Flatten([i \in 1..Len(message) |-> Format08b(message[i])])

\* str.encode('utf-8') of one code point (no surrogates)
Utf8Encode(cp) ==
  IF cp < 128 THEN <<cp>>
  ELSE IF cp < 2048 THEN <<192 + (cp \div 64), 128 + (cp % 64)>>
  ELSE IF cp < 65536
    THEN <<224 + (cp \div 4096), 128 + ((cp \div 64) % 64), 128 + (cp % 64)>>
  ELSE <<240 + (cp \div 262144), 128 + ((cp \div 4096) % 64),
         128 + ((cp \div 64) % 64), 128 + (cp % 64)>>

Utf8Bytes(text) == Flatten([i \in 1..Len(text) |-> Utf8Encode(text[i])])

TextToBinaryLatin1(text) == OrdBits(text)

\* unicode_handler.text_to_binary_unicode
TextToBinaryUnicode(text) ==
  IF text = <<>> THEN <<>>
  ELSE LET bytes == Utf8Bytes(text)
       IN  Flatten([i \in 1..Len(bytes) |-> ByteBits(bytes[i])])

\* stego_base.SteganographyBase.message_to_binary (terminator '00000000')
MessageToBinary(message) ==
  IF message = <<>> THEN <<>> ELSE OrdBits(message) \o Zeros(8)

\* the terminator each encode appends
TerminatorLen(v) == IF v = "AudioDCT" THEN 16 ELSE 8

\* binary_message of encode: the message's bits, then the terminator
MessageBits(v, message) ==
  IF v \in {"DFT", "SVD", "LBP"} THEN TextToBinaryUnicode(message)
  ELSE OrdBits(message)

EncodeBitstream(v, message) == MessageBits(v, message) \o Zeros(TerminatorLen(v))

(***************************************************************************)
(* Message codec: bits -> text                                             *)
(***************************************************************************)
\* int(byte, 2)
ByteValue(bits, i) ==
  128 * bits[i] + 64 * bits[i+1] + 32 * bits[i+2] + 16 * bits[i+3]
    + 8 * bits[i+4] + 4 * bits[i+5] + 2 * bits[i+6] + bits[i+7]

\* bits right-padded with zeros to a multiple of 8
PadToByte(bits) ==
  IF Len(bits) % 8 = 0 THEN bits ELSE bits \o Zeros(8 - (Len(bits) % 8))

\* the bytes of a bit sequence whose length is a multiple of 8
BytesOf(bits) == [k \in 1..(Len(bits) \div 8) |-> ByteValue(bits, 8 * (k - 1) + 1)]

\* the bytes of the complete 8-bit groups only (range(0, len, 8) with i + 8 <= len)
WholeBytesOf(bits) == BytesOf(SubSeq(bits, 1, 8 * (Len(bits) \div 8)))

IsAcceptedAscii(d) == (32 <= d /\ d <= 126) \/ d \in {9, 10, 13}

\* dct_stego.DCTSteganography._bits_to_message
DctBitsToMessage(bits) ==
  IF bits = <<>> THEN <<>>
  ELSE LET bytes == BytesOf(PadToByte(bits))
       IN  [k \in 1..Len(bytes) |->
              IF IsAcceptedAscii(bytes[k]) THEN bytes[k] ELSE ReplacementChar]

\* wavelet_stego.WaveletSteganography._bits_to_message
WaveletBitsToMessage(bits) ==
  IF bits = <<>> THEN <<>>
  ELSE LET bytes == BytesOf(PadToByte(bits))
       IN  Flatten([k \in 1..Len(bytes) |->
              IF IsAcceptedAscii(bytes[k]) THEN <<bytes[k]>> ELSE WaveletPlaceholder])

\* audio_dct_stego.AudioDCTSteganography._binary_to_text
AudioDctBinaryToText(bits) ==
  IF bits = <<>> THEN <<>>
  ELSE LET bytes == BytesOf(PadToByte(bits))
       IN  [k \in 1..Len(bytes) |->
              IF IsAcceptedAscii(bytes[k]) THEN bytes[k] ELSE QuestionMark]

IsCont(b) == 128 <= b /\ b <= 191

\* bytes.decode('utf-8', errors='replace'): a malformed sequence gives one
\* U+FFFD for its maximal well-formed prefix and decoding resumes after it
RECURSIVE Utf8Decode(_, _)
Utf8Decode(bytes, i) ==
  IF i > Len(bytes) THEN <<>>
  ELSE
    LET n  == Len(bytes)
        b0 == bytes[i]
        has(k) == i + k <= n
        at(k)  == bytes[i + k]
        lo2 == IF b0 = 224 THEN 160 ELSE IF b0 = 240 THEN 144 ELSE 128
        hi2 == IF b0 = 237 THEN 159 ELSE IF b0 = 244 THEN 143 ELSE 191
        ok2 == has(1) /\ lo2 <= at(1) /\ at(1) <= hi2
        bad(k) == <<ReplacementChar>> \o Utf8Decode(bytes, i + k)
    IN
    IF b0 < 128 THEN <<b0>> \o Utf8Decode(bytes, i + 1)
    ELSE IF 194 <= b0 /\ b0 <= 223 THEN
      IF has(1) /\ IsCont(at(1))
        THEN <<(b0 - 192) * 64 + (at(1) - 128)>> \o Utf8Decode(bytes, i + 2)
        ELSE bad(1)
    ELSE IF 224 <= b0 /\ b0 <= 239 THEN
      IF ~ok2 THEN bad(1)
      ELSE IF ~(has(2) /\ IsCont(at(2))) THEN bad(2)
      ELSE <<(b0 - 224) * 4096 + (at(1) - 128) * 64 + (at(2) - 128)>>
             \o Utf8Decode(bytes, i + 3)
    ELSE IF 240 <= b0 /\ b0 <= 244 THEN
      IF ~ok2 THEN bad(1)
      ELSE IF ~(has(2) /\ IsCont(at(2))) THEN bad(2)
      ELSE IF ~(has(3) /\ IsCont(at(3))) THEN bad(3)
      ELSE <<(b0 - 240) * 262144 + (at(1) - 128) * 4096
               + (at(2) - 128) * 64 + (at(3) - 128)>>
             \o Utf8Decode(bytes, i + 4)
    ELSE bad(1)

\* unicode_handler.binary_to_text_unicode (the input holds only 0s and 1s)
BinaryToTextUnicode(bits) ==
  IF bits = <<>> THEN <<>> ELSE Utf8Decode(BytesOf(PadToByte(bits)), 1)

\* str.isprintable() of a character below U+0100
IsPrintable(d) ==
  (32 <= d /\ d <= 126) \/ (161 <= d /\ d <= 255 /\ d # 173)

KeepsAsIs(d) == IsPrintable(d) \/ d \in {9, 10, 13}

\* re.sub(r'\?{2,}', '?', s)
RECURSIVE CollapseQuestionMarks(_)
CollapseQuestionMarks(s) ==
  IF Len(s) < 2 THEN s
  ELSE IF s[1] = QuestionMark /\ s[2] = QuestionMark
    THEN CollapseQuestionMarks(Tail(s))
    ELSE <<s[1]>> \o CollapseQuestionMarks(Tail(s))

\* s.rfind(a + ' ') as a 0-based index, -1 when absent
RFindBeforeSpace(s, a) ==
  LET hits == {k \in 1..(Len(s) - 1) : s[k] = a /\ s[k + 1] = 32}
  IN  IF hits = {} THEN -1 ELSE (CHOOSE k \in hits : \A j \in hits : j <= k) - 1

\* s.rfind('\n') as a 0-based index, -1 when absent
RFindNewline(s) ==
  LET hits == {k \in 1..Len(s) : s[k] = 10}
  IN  IF hits = {} THEN -1 ELSE (CHOOSE k \in hits : \A j \in hits : j <= k) - 1

\* audio_wavelet_stego.AudioWaveletSteganography._binary_to_text_safe
AudioWaveletBinaryToTextSafe(bits) ==
  IF bits = <<>> THEN <<>>
  ELSE
    LET bytes == BytesOf(PadToByte(bits))
        text  == [k \in 1..Len(bytes) |->
                    IF bytes[k] < 32 /\ bytes[k] \notin {9, 10, 13}
                      THEN QuestionMark ELSE bytes[k]]
        dirty == \E k \in 1..Len(text) : ~KeepsAsIs(text[k])
        cleaned == CollapseQuestionMarks(
                     [k \in 1..Len(text) |->
                        IF KeepsAsIs(text[k]) THEN text[k] ELSE QuestionMark])
        tailHasQ == \E k \in Max(1, Len(cleaned) - 9)..Len(cleaned) :
                       cleaned[k] = QuestionMark
        lastGood == Max(Max(RFindBeforeSpace(cleaned, 46), RFindBeforeSpace(cleaned, 33)),
                        Max(RFindBeforeSpace(cleaned, 63), RFindNewline(cleaned)))
    IN
    IF ~dirty THEN text
    ELSE IF Len(cleaned) > 20 /\ tailHasQ /\ lastGood > Len(cleaned) \div 2
      THEN SubSeq(cleaned, 1, lastGood + 1)
      ELSE cleaned

\* reliable_stego.ReliableSteganography.decode, the conversion after a terminator
\* hit: chr(int(byte, 2)) of every complete byte
LsbBytesToText(bits) == WholeBytesOf(bits)

\* simple_dft_stego.SimpleDFTSteganography.decode, the recovery when no
\* terminator was found: None when too short or nothing printable is left
SimpleDftRecover(bits) ==
  IF Len(bits) >= SimpleDftMinBits
    THEN LET bytes == WholeBytesOf(SubSeq(bits, 1, Min(Len(bits), SimpleDftMaxRecover)))
             text  == SelectSeq(bytes, IsAcceptedAscii)
         IN  IF text = <<>> THEN None ELSE text
    ELSE None

\* _bits_to_message / _binary_to_text of each variant
BitsToText(v, bits) ==
  CASE v = "DCT"          -> DctBitsToMessage(bits)
    [] v = "Wavelet"      -> WaveletBitsToMessage(bits)
    [] v = "AudioDCT"     -> AudioDctBinaryToText(bits)
    [] v = "AudioWavelet" -> AudioWaveletBinaryToTextSafe(bits)
    [] v \in LsbVariants  -> LsbBytesToText(bits)
    [] OTHER              -> BinaryToTextUnicode(bits)

(***************************************************************************)
(* Position selector.  A shape is <<h, w>>: the plane's height and width   *)
(* (DCT, DFT, SVD, LBP, Reliable, SimpleDFT), the shape of the sub-band cH *)
(* (Wavelet), <<1, total_samples>> (AudioDCT), <<1, len(cD1)>>             *)
(* (AudioWavelet).  A position is a pair of coordinates.                   *)
(***************************************************************************)
\* len(range(start, stop, stride))
RangeLen(start, stop, stride) ==
  IF stop <= start THEN 0 ELSE (stop - start + stride - 1) \div stride

\* for y in range(y0, y1, sy): for x in range(x0, x1, sx): append((y, x))
Grid(y0, y1, sy, x0, x1, sx) ==
  LET ny == RangeLen(y0, y1, sy)
      nx == RangeLen(x0, x1, sx)
  IN  [k \in 1..(ny * nx) |->
         <<y0 + ((k - 1) \div nx) * sy, x0 + ((k - 1) % nx) * sx>>]

\* for x in range(x0, x1, sx): for y in range(y0, y1, sy): append((y, x))
GridColumnMajor(y0, y1, sy, x0, x1, sx) ==
  LET ny == RangeLen(y0, y1, sy)
      nx == RangeLen(x0, x1, sx)
  IN  [k \in 1..(ny * nx) |->
         <<y0 + ((k - 1) % ny) * sy, x0 + ((k - 1) \div ny) * sx>>]

\* tuple comparison of Python: (a, b) <= (c, d)
PairLeq(p, q) == p[1] < q[1] \/ (p[1] = q[1] /\ p[2] <= q[2])

RECURSIVE InsertSorted(_, _)
InsertSorted(p, s) ==
  IF s = <<>> THEN <<p>>
  ELSE IF PairLeq(p, Head(s)) THEN <<p>> \o s
  ELSE <<Head(s)>> \o InsertSorted(p, Tail(s))

\* list.sort() of a list of coordinate tuples
RECURSIVE SortPairs(_)
SortPairs(s) == IF s = <<>> THEN <<>> ELSE InsertSorted(Head(s), SortPairs(Tail(s)))

\* the blocks audio_dct_stego visits: block i with coefficient coeff_indices[i % 4]
AudioDctBlocks(n) ==
  [k \in 1..n |-> <<k - 1, CoeffIndices[((k - 1) % Len(CoeffIndices)) + 1]>>]

Line(n) == [k \in 1..n |-> <<k - 1, 0>>]

\* r_min, r_max, c_min, c_max of dft_stego
DftBand(h, w) ==
  [r_min |-> (h \div 2) - (h \div 8), r_max |-> (h \div 2) - (h \div 16),
   c_min |-> (w \div 2) - (w \div 8), c_max |-> (w \div 2) + (w \div 8)]

\* the positions encode enumerates, before it keeps the first len(bits) of them
EncPositions(v, h, w) ==
  CASE v = "DCT" ->
         Grid(0, h - BlockSize + 1, BlockSize, 0, w - BlockSize + 1, BlockSize)
    [] v = "SVD" ->
         SortPairs(Grid(0, h \div BlockSize, 1, 0, w \div BlockSize, 1))
    [] v = "DFT" ->
         LET b == DftBand(h, w)
         IN  SortPairs(Grid(b.r_min, b.r_max, 1, b.c_min, b.c_max, 1))
    [] v = "LBP" ->
         SortPairs(Grid(h \div 8, h - (h \div 8), StrideY, w \div 8, w - (w \div 8), StrideX))
    [] v = "AudioDCT" -> AudioDctBlocks(w \div AudioBlockSize)
    [] v = "AudioWavelet" -> Line(w)
    [] OTHER -> Grid(0, h, 1, 0, w, 1)

CapacityFigureCeil(v, h, w) ==
  CASE v \in {"DCT", "SVD"} ->
         ((h + BlockSize - 1) \div BlockSize) * ((w + BlockSize - 1) \div BlockSize)
    [] v = "DFT" ->
         LET b == DftBand(h, w) IN (b.r_max - b.r_min + 1) * (b.c_max - b.c_min + 1)
    [] v = "LBP" -> Len(EncPositions("LBP", h, w))
    [] v = "AudioDCT" -> (w + AudioBlockSize - 1) \div AudioBlockSize
    [] v = "AudioWavelet" -> w
    [] OTHER -> h * w

\* the capacity figure of encode's check
CapacityFigure(v, h, w) ==
  CASE v \in {"DCT", "SVD"} -> (h \div BlockSize) * (w \div BlockSize)
    [] v = "DFT" ->
         LET b == DftBand(h, w) IN (b.r_max - b.r_min) * (b.c_max - b.c_min)
    [] v = "LBP" -> Len(EncPositions("LBP", h, w))
    [] v = "AudioDCT" -> w \div AudioBlockSize
    [] v = "AudioWavelet" -> w
    [] OTHER -> h * w

CapacityExceededStrict(v, h, w, n) == n >= CapacityFigure(v, h, w)

\* encode's check: raise ValueError("Message too long ...")
CapacityExceeded(v, h, w, n) == n > CapacityFigure(v, h, w)

DecPositionsColumnMajor(v, h, w) ==
  CASE v = "DCT" ->
         GridColumnMajor(0, h - BlockSize + 1, BlockSize, 0, w - BlockSize + 1, BlockSize)
    [] v = "SVD" -> GridColumnMajor(0, h \div BlockSize, 1, 0, w \div BlockSize, 1)
    [] v = "DFT" ->
         LET b == DftBand(h, w)
         IN  GridColumnMajor(b.r_min, b.r_max, 1, b.c_min, b.c_max, 1)
    [] v = "LBP" ->
         GridColumnMajor(h \div 8, h - (h \div 8), StrideY, w \div 8, w - (w \div 8), StrideX)
    [] v = "AudioDCT" -> AudioDctBlocks(w \div AudioBlockSize)
    [] v = "AudioWavelet" -> Line(w)
    [] OTHER -> GridColumnMajor(0, h, 1, 0, w, 1)

\* the positions decode enumerates when it extracts from the coefficients,
\* before its scan cap
DecPositions(v, h, w) ==
  CASE v = "DCT" ->
         Grid(0, h - BlockSize + 1, BlockSize, 0, w - BlockSize + 1, BlockSize)
    [] v = "SVD" ->
         SortPairs(Grid(0, h \div BlockSize, 1, 0, w \div BlockSize, 1))
    [] v = "DFT" ->
         LET b == DftBand(h, w)
         IN  SortPairs(Grid(b.r_min, b.r_max, 1, b.c_min, b.c_max, 1))
    [] v = "LBP" ->
         SortPairs(Grid(h \div 8, h - (h \div 8), StrideY, w \div 8, w - (w \div 8), StrideX))
    [] v = "AudioDCT" -> AudioDctBlocks(w \div AudioBlockSize)
    [] v = "AudioWavelet" -> Line(w)
    [] OTHER -> Grid(0, h, 1, 0, w, 1)

\* whether decode's loop goes on to read one more position after nRead of them
ScanContinues(v, h, w, nRead) ==
  CASE v \in {"DCT", "Wavelet"} -> nRead = 0 \/ nRead < Min(h * w, ImageScanCap)
    [] v = "DFT" -> nRead < ImageScanCap
    [] v = "SVD" -> TRUE
    [] v = "LBP" -> nRead <= LbpScanCap
    [] v = "AudioDCT" -> nRead < Min(w \div AudioBlockSize, AudioDctBlockCap)
    [] v = "AudioWavelet" -> nRead < Min(w, AudioWaveletScanCap)
    [] v = "Reliable" -> nRead <= ReliableScanCap
    [] OTHER -> nRead <= SimpleDftScanCap

(***************************************************************************)
(* Quantization modulator (values in half-units, q the step)               *)
(***************************************************************************)
\* int(a / d) of Python for d > 0: truncation toward zero
Trunc(a, d) == IF a >= 0 THEN a \div d ELSE -((-a) \div d)

\* round(a / d) of Python for d > 0: to nearest, ties to even
RoundHalfEven(a, d) ==
  LET n == a \div d
      m == a % d
  IN  IF 2 * m < d THEN n
      ELSE IF 2 * m > d THEN n + 1
      ELSE IF n % 2 = 0 THEN n ELSE n + 1

\* np.clip(x, 0, 255)
Clip255(x) == IF x < 0 THEN 0 ELSE IF x > 255 THEN 255 ELSE x

\* the value encode computes for the target coefficient c2 and the bit
NewCoefficient(v, c2, bit, q) ==
  CASE v \in {"DCT", "DFT", "AudioWavelet"} -> 2 * q * (c2 \div (2 * q)) + bit * q
    [] v \in {"Wavelet", "AudioDCT"} -> 2 * q * RoundHalfEven(c2, 2 * q) + bit * q
    [] v = "SVD" -> 2 * q * Trunc(c2, 2 * q) + bit * q
    [] v = "LBP" -> 2 * Clip255(q * Trunc(c2 \div 2, q) + bit * (q \div 2))
    [] OTHER -> 2 * (2 * ((c2 \div 2) \div 2) + bit)

\* the value the carrier holds for the coefficient after encode's write
\* (dft_stego rescales the component only when its magnitude is not 0)
WriteBit(v, c2, bit, q) ==
  IF v = "DFT" /\ c2 = 0 THEN c2 ELSE NewCoefficient(v, c2, bit, q)

\* lo/den < m/d < hi/den
FracStrictlyBetween(m, d, lo, hi, den) == m * den > lo * d /\ m * den < hi * d

\* the bit decode reads from coefficient c2
ReadBit(v, c2, q) ==
  LET d == 2 * q
      m == c2 % d
  IN  CASE v \in {"DCT", "DFT"} ->
             IF FracStrictlyBetween(m, d, 1, 3, 4) THEN 1 ELSE 0
        [] v = "Wavelet" ->
             IF FracStrictlyBetween(m, d, 2, 8, 10) THEN 1 ELSE 0
        [] v = "SVD" ->
             IF c2 >= 0 /\ FracStrictlyBetween(m, d, 3, 7, 10) THEN 1 ELSE 0
        [] v = "LBP" ->
             IF FracStrictlyBetween((c2 \div 2) % q, q, 1, 3, 4) THEN 1 ELSE 0
        [] v = "AudioDCT" ->
             IF 4 * Min(m, d - m) < d THEN 0 ELSE 1
        [] v = "AudioWavelet" ->
             IF 4 * m < d \/ 4 * m > 3 * d THEN 0 ELSE 1
        [] OTHER -> (c2 \div 2) % 2

(***************************************************************************)
(* Inputs of the model                                                     *)
(***************************************************************************)
\* ' ', '@', 'A'
Alphabet == {32, 64, 65}

RECURSIVE TextsUpTo(_, _)
TextsUpTo(chars, n) ==
  IF n = 0 THEN {<<>>}
  ELSE LET shorter == TextsUpTo(chars, n - 1)
       IN  shorter \cup {Append(t, c) : t \in shorter, c \in chars}

Messages == TextsUpTo(Alphabet, MaxMsgLen)

\* quantization_factor / strength / threshold
Steps == {4, 5}

\* carrier shapes whose capacities (14 or 15, 16, 24; 23, 24, 32 blocks for
\* AudioDCT) lie around the bitstream lengths of the messages
ShapesOf(v) ==
  CASE v \in {"DCT", "SVD"} -> {<<24, 40>>, <<32, 35>>, <<32, 48>>}
    [] v = "DFT" -> {<<16, 60>>, <<16, 64>>, <<48, 32>>}
    [] v = "LBP" -> {<<8, 24>>, <<10, 20>>, <<10, 28>>}
    [] v = "AudioDCT" -> {<<1, 23652>>, <<1, 24576>>, <<1, 32768>>}
    [] v = "AudioWavelet" -> {<<1, 15>>, <<1, 16>>, <<1, 24>>}
    [] OTHER -> {<<3, 5>>, <<4, 4>>, <<4, 6>>}

\* coefficient values of a cover, in half-units: any sign for DCT and wavelet
\* coefficients, none negative for a magnitude or a singular value, a pixel
\* 0..255 for LBP and the LSB methods
CoverValuesOf(v) ==
  CASE v \in {"DCT", "Wavelet", "AudioDCT", "AudioWavelet"} -> {-7, 13}
    [] v \in {"DFT", "SVD"} -> {0, 13}
    [] OTHER -> {14, 510}

SeqRange(s) == {s[i] : i \in 1..Len(s)}

\* a cover all of whose coefficients have the value c2
FlatCover(v, h, w, c2) == [p \in SeqRange(EncPositions(v, h, w)) |-> c2]

(***************************************************************************)
(* Side files next to the output path                                      *)
(***************************************************************************)
\* messageTxt: <path>.message.txt (dft_stego, lbp_stego, audio_wavelet_stego)
\* txt:        <path>.txt         (audio_dct_stego)
\* npz:        <path>.<method>_info.npz (dft_stego, svd_stego, lbp_stego)
\* debugTxt:   <path>.debug.txt   (audio_dct_stego)
\* hex:        <path>.hex         (lbp_stego)
\* Each holds NoFile or the message of the encode that wrote it.
SideFileNames == {"messageTxt", "txt", "npz", "debugTxt", "hex"}

NoSideFiles == [f \in SideFileNames |-> NoFile]

\* the side file encode writes before it loads the cover and checks capacity
EarlySideFiles(v) ==
  CASE v = "AudioDCT" -> {"txt"}
    [] v = "AudioWavelet" -> {"messageTxt"}
    [] OTHER -> {}

\* the side files encode writes after it has saved the stego carrier
LateSideFiles(v) ==
  CASE v = "DFT" -> {"npz", "messageTxt"}
    [] v = "SVD" -> {"npz"}
    [] v = "LBP" -> {"npz", "messageTxt", "hex"}
    [] v = "AudioDCT" -> {"debugTxt"}
    [] OTHER -> {}

WriteSideFiles(fs, names, message) ==
  [f \in SideFileNames |-> IF f \in names THEN message ELSE fs[f]]

IsWhitespace(c) == c \in {32, 9, 10, 11, 12, 13}

\* str.strip()
RECURSIVE StripLeft(_)
StripLeft(t) == IF t # <<>> /\ IsWhitespace(Head(t)) THEN StripLeft(Tail(t)) ELSE t

RECURSIVE StripRight(_)
StripRight(t) ==
  IF t # <<>> /\ IsWhitespace(t[Len(t)]) THEN StripRight(SubSeq(t, 1, Len(t) - 1)) ELSE t

Strip(t) == StripRight(StripLeft(t))

\* "Error: ..." , the string the audio decoders return for an exception
ErrorText == <<69, 114, 114, 111, 114, 58>>

\* "No message found"
NoMessageFoundText == <<78, 111, 32, 109, 101, 115, 115, 97, 103, 101, 32, 102, 111, 117, 110, 100>>

\* the outcome of a decode that raised instead of returning
Raised == <<-3>>

\* decode has not returned
NoResult == <<-4>>

\* What decode returns before it reads any coefficient, or NoResult when it
\* goes on to extract.  carrier is NoCarrier when the stego file cannot be loaded.
\* An .npz written by encode holds binary_message as a 0-d array, whose len()
\* raises inside the try block: dft_stego and svd_stego then fall through to
\* the extraction with positions unset, and so does lbp_stego when the saved
\* message_original is empty.
DecodeShortcut(v, carrier, fs) ==
  CASE v = "DFT" ->
         IF carrier = NoCarrier THEN Raised
         ELSE IF fs.messageTxt # NoFile THEN fs.messageTxt
         ELSE NoResult
    [] v = "LBP" ->
         IF fs.messageTxt # NoFile THEN fs.messageTxt
         ELSE IF carrier = NoCarrier THEN Raised
         ELSE IF fs.npz # NoFile /\ fs.npz # <<>> THEN fs.npz
         ELSE NoResult
    [] v = "AudioDCT" ->
         IF fs.txt # NoFile THEN Strip(fs.txt)
         ELSE IF carrier = NoCarrier THEN ErrorText
         ELSE NoResult
    [] v = "AudioWavelet" ->
         IF fs.messageTxt # NoFile THEN fs.messageTxt
         ELSE IF carrier = NoCarrier THEN ErrorText
         ELSE NoResult
    [] OTHER -> IF carrier = NoCarrier THEN Raised ELSE NoResult

\* the terminator test decode makes after it has appended a bit
TerminatorSeen(v, extracted) ==
  Len(extracted) >= 8 /\ LastN(extracted, 8) = Zeros(8)

\* what decode returns when its loop ends without a terminator
ExhaustedResult(v, extracted) ==
  CASE v = "Reliable" -> None
    [] v = "SimpleDFT" -> SimpleDftRecover(extracted)
    [] v = "AudioWavelet" ->
         IF extracted # <<>> THEN BitsToText(v, extracted) ELSE NoMessageFoundText
    [] OTHER -> BitsToText(v, extracted)

(***************************************************************************)
(* Decode controller of main.py: the plausibility check                    *)
(***************************************************************************)
\* the largest e with 2^e <= x, for x >= 1
RECURSIVE FloorLog2(_)
FloorLog2(x) == IF x < 2 THEN 0 ELSE 1 + FloorLog2(x \div 2)

\* k > n * 0.7 as Python evaluates it, in IEEE-754 double arithmetic.  The
\* double 0.7 is 0.7 - 0.4 * 2^-53, so n * 0.7 is the double nearest to
\* 0.7 * n - 0.4 * n * 2^-53.  When 0.7 * n is no integer the rounding cannot
\* move the product across an integer.  When 0.7 * n = k (n = 10 * m,
\* k = 7 * m) the product lies 4 * m * 2^-53 below k, and the doubles below k
\* are 2^(e-52) apart with e = FloorLog2(k): it rounds to a double below k,
\* and k exceeds it, exactly when 4 * m * 2^-53 > 2^(e-53) (at equality the
\* tie goes to k, whose significand is even).
ExceedsSeventyPercent(k, n) ==
  IF 10 * k # 7 * n THEN 10 * k > 7 * n
  ELSE k > 0 /\ 4 * (n \div 10) > Pow2(FloorLog2(k))

\* printable_chars of is_valid_message
PrintableCount(msg) == Len(SelectSeq(msg, LAMBDA c : 32 <= c /\ c <= 126))

\* is_valid_message(msg) of decode_message
IsValidMessage(msg) ==
  IF msg = None \/ msg = <<>> THEN FALSE
  ELSE ExceedsSeventyPercent(PrintableCount(msg), Len(msg))

(***************************************************************************)
(* State                                                                   *)
(***************************************************************************)
VARIABLES
  variant,    \* the method of the encode and decode calls
  shape,      \* <<h, w>> of the carrier
  step,       \* quantization_factor / strength / threshold
  cover,      \* the cover file: position -> coefficient
  pc,         \* "idle" | "encoding" | "decoding"
  msg,        \* message of the encode call
  bits,       \* binary_message
  work,       \* the carrier copy encode modifies
  idx,        \* message_index: bits written so far
  encPos,     \* the positions encode enumerated
  encStatus,  \* "none" | "running" | "ok" | "CapacityExceeded"
  stegoFile,  \* the file at the stego path: NoCarrier or <<position -> coefficient>>
  files,      \* the side files next to the stego path
  snap,       \* stegoFile and files as they were when encode was called
  decPos,     \* the positions decode enumerated
  extracted,  \* extracted_bits
  nRead,      \* positions read so far
  decStatus,  \* "none" | "running" | "shortcut" | "terminator" | "exhausted"
  result,     \* what the latest decode returned
  prevResult, \* what the decode before it returned, for the same stego file
  qv, qc, qbit, qstep, qstored, qread, qpc,   \* one write and read of a bit
  cenc, ctext, cbits, cpc,                    \* one text-to-bits conversion
  pv, pshape, ppos, pcap, ppc,                \* one enumeration of positions
  vmsg, vok, vpc,                             \* one plausibility check
  kmethod, kstrength, kpc, ki, kmessage,      \* decode controller of main.py
  kinitial, kdecoded, klast, kplausible, kfound, kerror, kreturned,
  fv, fshape, flevel, fpc, fstatus, fframe,   \* encode on a flat channel
  rtext, rbits, rback, rpc,                   \* codec round trip of unicode_handler
  sv, sshape, slen, sn, spc,                        \* the length of decode's scan
  cfgDefaults, cfgState, cfgFile, cfgReturned, cfgOp\* the settings of stego_config.py

pipeVars ==
  <<variant, shape, step, cover, pc, msg, bits, work, idx, encPos, encStatus,
    stegoFile, files, snap, decPos, extracted, nRead, decStatus, result, prevResult>>

qimVars == <<qv, qc, qbit, qstep, qstored, qread, qpc>>

codecVars == <<cenc, ctext, cbits, cpc>>

posVars == <<pv, pshape, ppos, pcap, ppc>>

validVars == <<vmsg, vok, vpc>>

ctlVars == <<kmethod, kstrength, kpc, ki, kmessage, kinitial, kdecoded, klast,
             kplausible, kfound, kerror, kreturned>>

frameVars == <<fv, fshape, flevel, fpc, fstatus, fframe>>

rtVars == <<rtext, rbits, rback, rpc>>

scanVars == <<sv, sshape, slen, sn, spc>>

configVars == <<cfgDefaults, cfgState, cfgFile, cfgReturned, cfgOp>>

vars == <<pipeVars, qimVars, codecVars, posVars, validVars, ctlVars, frameVars, rtVars, scanVars, configVars>>

\* the variables each specification leaves alone
outsidePipe == <<qimVars, codecVars, posVars, validVars, ctlVars, frameVars, rtVars, scanVars, configVars>>

outsideQim == <<pipeVars, codecVars, posVars, validVars, ctlVars, frameVars, rtVars, scanVars, configVars>>

outsideCodec == <<pipeVars, qimVars, posVars, validVars, ctlVars, frameVars, rtVars, scanVars, configVars>>

outsidePos == <<pipeVars, qimVars, codecVars, validVars, ctlVars, frameVars, rtVars, scanVars, configVars>>

outsideValid == <<pipeVars, qimVars, codecVars, posVars, ctlVars, frameVars, rtVars, scanVars, configVars>>

outsideCtl == <<pipeVars, qimVars, codecVars, posVars, validVars, frameVars, rtVars, scanVars, configVars>>

outsideFrame == <<pipeVars, qimVars, codecVars, posVars, validVars, ctlVars, rtVars, scanVars, configVars>>

outsideRoundTrip == <<pipeVars, qimVars, codecVars, posVars, validVars, ctlVars, frameVars, scanVars, configVars>>

outsideScan == <<pipeVars, qimVars, codecVars, posVars, validVars, ctlVars, frameVars, rtVars, configVars>>

outsideConfig == <<pipeVars, qimVars, codecVars, posVars, validVars, ctlVars, frameVars, rtVars, scanVars>>

PipeIdle ==
  /\ variant = "DCT" /\ shape = <<0, 0>> /\ step = 1 /\ cover = <<>>
  /\ pc = "off" /\ msg = <<>> /\ bits = <<>> /\ work = <<>> /\ idx = 0
  /\ encPos = <<>> /\ encStatus = "none" /\ stegoFile = NoCarrier
  /\ files = NoSideFiles /\ snap = [stego |-> NoCarrier, files |-> NoSideFiles] /\ decPos = <<>> /\ extracted = <<>>
  /\ nRead = 0 /\ decStatus = "none" /\ result = NoResult /\ prevResult = NoResult

QimIdle ==
  /\ qv = "DCT" /\ qc = 0 /\ qbit = 0 /\ qstep = 1 /\ qstored = 0 /\ qread = 0
  /\ qpc = "off"

CodecIdle == cenc = "off" /\ ctext = <<>> /\ cbits = <<>> /\ cpc = "off"

PosIdle == pv = "DCT" /\ pshape = <<0, 0>> /\ ppos = <<>> /\ pcap = 0 /\ ppc = "off"

ValidIdle ==
  vmsg = <<>> /\ vok = FALSE /\ vpc = "off"

CtlIdle ==
  /\ kmethod = "DCT" /\ kstrength = 0 /\ kpc = "off" /\ ki = 0
  /\ kmessage = None /\ kinitial = NoResult /\ kdecoded = <<>> /\ klast = NoResult /\ kplausible = 0
  /\ kfound = 0 /\ kerror = FALSE /\ kreturned = NoResult

FrameIdle ==
  /\ fv = "DFT" /\ fshape = <<0, 0>> /\ flevel = 0 /\ fpc = "off"
  /\ fstatus = "none" /\ fframe = -1

RoundTripIdle ==
  rtext = <<>> /\ rbits = <<>> /\ rback = <<>> /\ rpc = "off"

ScanIdle ==
  sv = "DCT" /\ sshape = <<0, 0>> /\ slen = 0 /\ sn = 0 /\ spc = "off"

ConfigIdle ==
  /\ cfgDefaults = <<>> /\ cfgState = "off" /\ cfgFile = <<>>
  /\ cfgReturned = <<>> /\ cfgOp = "off"

(***************************************************************************)
(* The pipeline: encode, decode, and the user removing a side file         *)
(***************************************************************************)
PipeInit ==
  /\ variant \in Variants
  /\ shape \in ShapesOf(variant)
  /\ step \in Steps
  /\ \E c2 \in CoverValuesOf(variant) : cover = FlatCover(variant, shape[1], shape[2], c2)
  /\ stegoFile \in {NoCarrier, <<cover>>}
  /\ pc = "idle" /\ msg = <<>> /\ bits = <<>> /\ work = <<>> /\ idx = 0
  /\ encPos = <<>> /\ encStatus = "none"
  /\ files = NoSideFiles /\ snap = [stego |-> NoCarrier, files |-> NoSideFiles]
  /\ decPos = <<>> /\ extracted = <<>>
  /\ nRead = 0 /\ decStatus = "none" /\ result = NoResult /\ prevResult = NoResult

encLocals == <<msg, bits, work, idx, encPos, encStatus, snap>>

decLocals == <<decPos, extracted, nRead, decStatus, result, prevResult>>

params == <<variant, shape, step, cover>>

\* encode(cover_image_path, message, output_path) up to its capacity check
\* (a behaviour holds one encode call; decode may be called any number of times)
EncodeBegin(m) ==
  /\ pc = "idle" /\ encStatus = "none"
  /\ msg' = m
  /\ bits' = EncodeBitstream(variant, m)
  /\ snap' = [stego |-> stegoFile, files |-> files]
  /\ files' = WriteSideFiles(files, EarlySideFiles(variant), m)
  /\ work' = cover
  /\ idx' = 0
  /\ encPos' = EncPositions(variant, shape[1], shape[2])
  /\ IF CapacityExceeded(variant, shape[1], shape[2], Len(bits'))
       THEN encStatus' = "CapacityExceeded" /\ pc' = "idle"
       ELSE encStatus' = "running" /\ pc' = "encoding"
  /\ UNCHANGED <<outsidePipe, params, stegoFile, decLocals>>

\* one pass of encode's loop: write bit idx into the coefficient at its position
EncodeStep ==
  /\ pc = "encoding" /\ idx < Len(bits) /\ idx < Len(encPos)
  /\ LET p == encPos[idx + 1]
     IN  work' = [work EXCEPT ![p] = WriteBit(variant, work[p], bits[idx + 1], step)]
  /\ idx' = idx + 1
  /\ UNCHANGED <<outsidePipe, params, pc, msg, bits, encPos, encStatus, snap, stegoFile, files, decLocals>>

\* the end of encode: save the stego carrier, then the side files
EncodeFinish ==
  /\ pc = "encoding" /\ ~(idx < Len(bits) /\ idx < Len(encPos))
  /\ stegoFile' = <<work>>
  /\ files' = WriteSideFiles(files, LateSideFiles(variant), msg)
  /\ encStatus' = "ok"
  /\ pc' = "idle"
  /\ decPos' = <<>> /\ extracted' = <<>> /\ nRead' = 0 /\ decStatus' = "none"
  /\ result' = NoResult /\ prevResult' = NoResult
  /\ UNCHANGED <<outsidePipe, params, msg, bits, work, idx, encPos, snap>>

\* decode(stego_image_path) up to its extraction loop
DecodeBegin ==
  /\ pc = "idle"
  /\ prevResult' = result
  /\ decPos' = DecPositions(variant, shape[1], shape[2])
  /\ extracted' = <<>>
  /\ nRead' = 0
  /\ LET r == DecodeShortcut(variant, stegoFile, files)
     IN  IF r # NoResult
           THEN result' = r /\ decStatus' = "shortcut" /\ pc' = "idle"
           ELSE result' = NoResult /\ decStatus' = "running" /\ pc' = "decoding"
  /\ UNCHANGED <<outsidePipe, params, encLocals, stegoFile, files>>

DecodeMayRead ==
  nRead < Len(decPos) /\ ScanContinues(variant, shape[1], shape[2], nRead)

\* one pass of decode's loop: read a bit, then test for the terminator
DecodeStep ==
  /\ pc = "decoding" /\ DecodeMayRead
  /\ LET b  == ReadBit(variant, stegoFile[1][decPos[nRead + 1]], step)
         ex == Append(extracted, b)
     IN  /\ extracted' = ex
         /\ nRead' = nRead + 1
         /\ IF TerminatorSeen(variant, ex)
              THEN /\ result' = BitsToText(variant, DropLast(ex, 8))
                   /\ decStatus' = "terminator"
                   /\ pc' = "idle"
              ELSE UNCHANGED <<result, decStatus, pc>>
  /\ UNCHANGED <<outsidePipe, params, encLocals, stegoFile, files, decPos, prevResult>>

\* the end of decode's loop without a terminator
DecodeFinish ==
  /\ pc = "decoding" /\ ~DecodeMayRead
  /\ result' = ExhaustedResult(variant, extracted)
  /\ decStatus' = "exhausted"
  /\ pc' = "idle"
  /\ UNCHANGED <<outsidePipe, params, encLocals, stegoFile, files, decPos, extracted, nRead, prevResult>>

\* the user deletes one side file (or passes the stego file on without it)
RemoveSideFile(f) ==
  /\ pc = "idle" /\ files[f] # NoFile
  /\ files' = [files EXCEPT ![f] = NoFile]
  /\ UNCHANGED <<outsidePipe, params, pc, encLocals, stegoFile, decLocals>>

Next ==
  \/ \E m \in Messages : EncodeBegin(m)
  \/ EncodeStep
  \/ EncodeFinish
  \/ DecodeBegin
  \/ DecodeStep
  \/ DecodeFinish
  \/ \E f \in SideFileNames : RemoveSideFile(f)

Init == PipeInit /\ QimIdle /\ CodecIdle /\ PosIdle /\ ValidIdle /\ CtlIdle /\ FrameIdle /\ RoundTripIdle /\ ScanIdle /\ ConfigIdle

Spec == Init /\ [][Next]_vars

(***************************************************************************)
(* The modulator alone: one write of a bit, then one read of it            *)
(***************************************************************************)
\* coefficients in half-units: a pixel near either end of 0..255 for LBP, a
\* magnitude or singular value >= 0 for DFT and SVD, any sign otherwise
QCoefficients(v) ==
  CASE v = "LBP" -> {2 * p : p \in (0..MaxCoef) \cup ((255 - MaxCoef)..255)}
    [] v \in {"DFT", "SVD"} -> 0..MaxCoef
    [] OTHER -> (-MaxCoef)..MaxCoef

QimInit ==
  /\ qv \in DomainVariants
  /\ qc \in QCoefficients(qv)
  /\ qstep \in 1..MaxStep
  /\ qbit \in {0, 1}
  /\ qstored = qc /\ qread = 0 /\ qpc = "start"

\* encode's write of one bit
QWrite ==
  /\ qpc = "start"
  /\ qstored' = WriteBit(qv, qc, qbit, qstep)
  /\ qpc' = "written"
  /\ UNCHANGED <<qv, qc, qbit, qstep, qread, outsideQim>>

\* decode's read of the coefficient encode wrote
QRead ==
  /\ qpc = "written"
  /\ qread' = ReadBit(qv, qstored, qstep)
  /\ qpc' = "read"
  /\ UNCHANGED <<qv, qc, qbit, qstep, qstored, outsideQim>>

\* decode's read of a coefficient as the carrier holds it
QProbe ==
  /\ qpc = "start"
  /\ qread' = ReadBit(qv, qc, qstep)
  /\ qpc' = "probed"
  /\ UNCHANGED <<qv, qc, qbit, qstep, qstored, outsideQim>>

InitQIM == QimInit /\ PipeIdle /\ CodecIdle /\ PosIdle /\ ValidIdle /\ CtlIdle /\ FrameIdle /\ RoundTripIdle /\ ScanIdle /\ ConfigIdle

NextQIM == QWrite \/ QRead \/ QProbe

SpecQIM == InitQIM /\ [][NextQIM]_vars

(***************************************************************************)
(* The text-to-bits conversions alone                                      *)
(***************************************************************************)
\* 'A', U+00E9, U+0100, U+20AC
CodecAlphabet == {65, 233, 256, 8364}

\* the encode methods and SteganographyBase.message_to_binary
Encoders == Variants \cup {"SteganographyBase"}

CodecInit ==
  /\ cenc \in Encoders
  /\ ctext \in TextsUpTo(CodecAlphabet, MaxCodecLen)
  /\ cbits = <<>> /\ cpc = "start"

\* the bitstream the encoder makes of the text
TextToBits ==
  /\ cpc = "start"
  /\ cbits' = IF cenc = "SteganographyBase" THEN MessageToBinary(ctext)
              ELSE EncodeBitstream(cenc, ctext)
  /\ cpc' = "done"
  /\ UNCHANGED <<cenc, ctext, outsideCodec>>

InitCodec == CodecInit /\ PipeIdle /\ QimIdle /\ PosIdle /\ ValidIdle /\ CtlIdle /\ FrameIdle /\ RoundTripIdle /\ ScanIdle /\ ConfigIdle

NextCodec == TextToBits

SpecCodec == InitCodec /\ [][NextCodec]_vars

(***************************************************************************)
(* The position selector alone, on carriers of any small size              *)
(***************************************************************************)
\* heights and widths from 1, below and between the multiples of the block
\* size and the strides; for AudioDCT sample counts around the first blocks
PosShapes(v) ==
  CASE v = "AudioDCT" -> {<<1, 341 * k>> : k \in 1..MaxDim}
    [] v = "AudioWavelet" -> {<<1, n>> : n \in 1..MaxDim}
    [] v \in {"DCT", "SVD", "DFT"} -> ((1..MaxDim) \X (1..MaxDim)) \cup {<<64, 64>>}
    [] OTHER -> (1..MaxDim) \X (1..MaxDim)

PosInit ==
  /\ pv \in Variants
  /\ pshape \in PosShapes(pv)
  /\ ppos = <<>> /\ pcap = 0 /\ ppc = "start"

\* encode up to its capacity check and its list of positions
EnumeratePositions ==
  /\ ppc = "start"
  /\ ppos' = EncPositions(pv, pshape[1], pshape[2])
  /\ pcap' = CapacityFigure(pv, pshape[1], pshape[2])
  /\ ppc' = "done"
  /\ UNCHANGED <<pv, pshape, outsidePos>>

InitPos == PosInit /\ PipeIdle /\ QimIdle /\ CodecIdle /\ ValidIdle /\ CtlIdle /\ FrameIdle /\ RoundTripIdle /\ ScanIdle /\ ConfigIdle

NextPos == EnumeratePositions

SpecPos == InitPos /\ [][NextPos]_vars

(***************************************************************************)
(* The plausibility check alone                                            *)
(***************************************************************************)
\* a text of k printable characters ('A') and n further ones (U+0001),
\* the printable ones first or last
Blend(k, n) == [i \in 1..(k + n) |-> IF i <= k THEN 65 ELSE 1]

BlendLast(k, n) == [i \in 1..(k + n) |-> IF i <= n THEN 1 ELSE 65]

\* decoded results: None, and texts of every length up to MaxResultLen with
\* every number of printable characters
DecodedResults ==
  {None}
    \cup UNION {{Blend(k, n - k) : k \in 0..n} : n \in 0..MaxResultLen}
    \cup UNION {{BlendLast(k, n - k) : k \in 0..n} : n \in 0..MaxResultLen}

ValidInit == vmsg \in DecodedResults /\ vok = FALSE /\ vpc = "start"

\* one call of is_valid_message
CheckPlausible ==
  /\ vpc = "start"
  /\ vok' = IsValidMessage(vmsg)
  /\ vpc' = "done"
  /\ UNCHANGED <<vmsg, outsideValid>>

InitValid == ValidInit /\ PipeIdle /\ QimIdle /\ CodecIdle /\ PosIdle /\ CtlIdle /\ FrameIdle /\ RoundTripIdle /\ ScanIdle /\ ConfigIdle

NextValid == CheckPlausible

SpecValid == InitValid /\ [][NextValid]_vars

(***************************************************************************)
(* The decode controller: decode_thread of main.py.  Strengths are counted *)
(* in hundredths, so that 0.1 is 10.  The result of one decode call is an  *)
(* input of the controller, drawn from the results the decoder can give.   *)
(***************************************************************************)
CtlMethods == {"DCT", "Wavelet", "DFT", "SVD", "LBP"}

CtlStrengths == {100, 105, 110, 700, 1000, 1495, 5000}

SkipDistance == 10

DftLadder == <<100, 150, 200, 300, 500, 800, 1000, 1200, 1500, 2000>>

DefaultLadder == <<100, 500, 1000, 1500, 2000, 2500>>

TestStrengths(method) == IF method = "DFT" THEN DftLadder ELSE DefaultLadder

Abs(x) == IF x < 0 THEN -x ELSE x

SkipsNoCandidate(t, s) == FALSE

SkipsCandidate(t, s) == Abs(t - s) < SkipDistance

InitialDecoder(method) ==
  IF method \in {"DCT", "Wavelet"} THEN method ELSE "Reliable"

CandidateDecoder(method) == IF method = "DFT" THEN "SimpleDFT" ELSE method

\* the class whose encode encode_thread calls for the method
EncodeAdapter(method) == method

CtlTexts == {<<>>, <<32>>, <<32, 32>>, <<65, 66>>, <<65, 32>>, <<1, 1>>, <<1, 65>>}

DecodeOutcomes(decoder) ==
  CtlTexts \cup {Raised} \cup (IF decoder \in LsbVariants THEN {None} ELSE {})

Truthy(m) == m # None /\ m # <<>>

IsBlank(m) == m = None \/ Strip(m) = <<>>

CtlInit ==
  /\ kmethod \in CtlMethods
  /\ kstrength \in CtlStrengths
  /\ kpc = "TryInitial"
  /\ ki = 1
  /\ kmessage = None
  /\ kinitial = NoResult
  /\ kdecoded = <<>>
  /\ klast = NoResult
  /\ kplausible = 0
  /\ kfound = 0
  /\ kerror = FALSE
  /\ kreturned = NoResult

\* Lines 321-337 and 399-409: the first decode with the strength of the slider.
TryInitial(outcome) ==
  /\ kpc = "TryInitial"
  /\ outcome \in DecodeOutcomes(InitialDecoder(kmethod))
  /\ kinitial' = outcome
  /\ IF outcome = Raised
       THEN /\ kerror' = TRUE
            /\ kmessage' = None
            /\ kpc' = "Failed"
            /\ kreturned' = Raised
       ELSE LET m == IF Truthy(outcome) /\ ~IsValidMessage(outcome)
                       THEN None ELSE outcome
            IN /\ kmessage' = m
               /\ kerror' = FALSE
               /\ IF IsBlank(m)
                    THEN kpc' = "TryCandidate" /\ kreturned' = kreturned
                    ELSE kpc' = "Accepted" /\ kreturned' = m
  /\ UNCHANGED <<kmethod, kstrength, ki, kdecoded, klast, kplausible, kfound, outsideCtl>>

\* Lines 348-350: a step of the ladder close to the strength of the slider.
SkipCandidate ==
  /\ kpc = "TryCandidate"
  /\ ki <= Len(TestStrengths(kmethod))
  /\ SkipsCandidate(TestStrengths(kmethod)[ki], kstrength)
  /\ ki' = ki + 1
  /\ UNCHANGED <<kmethod, kstrength, kpc, kmessage, kinitial, kdecoded,
                 klast, kplausible, kfound, kerror, kreturned, outsideCtl>>

\* Lines 352-397: one decode with a step of the ladder.
TryCandidate(outcome) ==
  /\ kpc = "TryCandidate"
  /\ ki <= Len(TestStrengths(kmethod))
  /\ ~SkipsCandidate(TestStrengths(kmethod)[ki], kstrength)
  /\ outcome \in DecodeOutcomes(CandidateDecoder(kmethod))
  /\ kdecoded' = Append(kdecoded, TestStrengths(kmethod)[ki])
  /\ klast' = outcome
  /\ kplausible' = kplausible +
       (IF outcome # Raised /\ IsValidMessage(outcome) THEN 1 ELSE 0)
  /\ IF outcome # Raised /\ Truthy(outcome) /\ IsValidMessage(outcome)
       THEN /\ kmessage' = outcome
            /\ kfound' = TestStrengths(kmethod)[ki]
            /\ kpc' = "Accepted"
            /\ kreturned' = outcome
            /\ ki' = ki
       ELSE /\ ki' = ki + 1
            /\ UNCHANGED <<kmessage, kfound, kpc, kreturned>>
  /\ UNCHANGED <<kmethod, kstrength, kinitial, kerror, outsideCtl>>

\* Lines 348 and 404-419: the ladder is used up, the message goes to
\* finish_decode as it is.
LadderExhausted ==
  /\ kpc = "TryCandidate"
  /\ ki > Len(TestStrengths(kmethod))
  /\ kpc' = "Exhausted"
  /\ kreturned' = kmessage
  /\ UNCHANGED <<kmethod, kstrength, ki, kmessage, kinitial, kdecoded,
                 klast, kplausible, kfound, kerror, outsideCtl>>

InitCtl == CtlInit /\ PipeIdle /\ QimIdle /\ CodecIdle /\ PosIdle /\ ValidIdle /\ FrameIdle /\ RoundTripIdle /\ ScanIdle /\ ConfigIdle

NextCtl ==
  \/ \E outcome \in CtlTexts \cup {Raised, None} : TryInitial(outcome)
  \/ SkipCandidate
  \/ \E outcome \in CtlTexts \cup {Raised, None} : TryCandidate(outcome)
  \/ LadderExhausted

SpecCtl == InitCtl /\ [][NextCtl]_vars

(***************************************************************************)
(* encode on a cover whose embedding channel is flat (every sample has the *)
(* value flevel): what becomes of the part of the carrier that no bit was  *)
(* assigned to.  For DFT that part is the zero-frequency component, which  *)
(* lies outside the band; for SVD and LBP it is a sample outside every     *)
(* used block or pixel.  The sides of the DFT shapes are powers of two.    *)
(***************************************************************************)
FrameVariants == {"DFT", "SVD", "LBP"}

FrameShapes(v) ==
  CASE v = "DFT" -> {<<16, 64>>, <<32, 32>>, <<64, 64>>}
    [] v = "SVD" -> {<<32, 35>>, <<32, 48>>}
    [] OTHER -> {<<10, 20>>, <<10, 28>>}

\* the value of a sample of the channel (uint8)
FrameLevels == 0..255

\* cv2.normalize(src, None, 0, 255, cv2.NORM_MINMAX).astype(np.uint8): a flat
\* source has no range to stretch and comes out as 0
NormalizeMinMax(src) ==
  LET smin == CHOOSE x \in SeqRange(src) : \A y \in SeqRange(src) : x <= y
      smax == CHOOSE x \in SeqRange(src) : \A y \in SeqRange(src) : x >= y
  IN  [i \in DOMAIN src |->
         IF smax - smin > 0 THEN ((src[i] - smin) * 255) \div (smax - smin) ELSE 0]

\* cv2.dft of the flat channel: the zero-frequency component (the sum of the
\* samples) and the components of the band, all of magnitude 0
DftOfFlat(h, w, g) == [zero |-> h * w * g, band |-> 0]

\* cv2.magnitude(cv2.idft(...)) without DFT_SCALE, of a spectrum that has the
\* zero-frequency component only: two samples stand for the flat channel
IdftOfFlat(spectrum) == <<spectrum.zero, spectrum.zero>>

\* the part of the cover no bit is assigned to
FrameOfCover(v, h, w, g) == IF v = "DFT" THEN DftOfFlat(h, w, g).zero ELSE g

\* the same part of the stego carrier encode saves, for any bit written
FrameOfStego(v, h, w, g, bit, q) ==
  CASE v = "DFT" ->
         LET spectrum == DftOfFlat(h, w, g)
             embedded == [spectrum EXCEPT !.band = WriteBit("DFT", spectrum.band, bit, q)]
             img_back == NormalizeMinMax(IdftOfFlat(embedded))
         IN  h * w * img_back[1]
    [] v = "SVD" -> Clip255(g)
    [] OTHER -> g

FrameInit ==
  /\ fv \in FrameVariants
  /\ fshape \in FrameShapes(fv)
  /\ flevel \in FrameLevels
  /\ fpc = "start"
  /\ fstatus = "none"
  /\ fframe = -1

\* encode(cover_image_path, message, output_path) on the flat cover
EncodeFlat(m, q) ==
  /\ fpc = "start"
  /\ fpc' = "done"
  /\ LET n == Len(EncodeBitstream(fv, m))
     IN  IF CapacityExceeded(fv, fshape[1], fshape[2], n)
           THEN fstatus' = "CapacityExceeded" /\ fframe' = -1
           ELSE /\ fstatus' = IF n < CapacityFigure(fv, fshape[1], fshape[2])
                                THEN "ok" ELSE "full"
                /\ fframe' = FrameOfStego(fv, fshape[1], fshape[2], flevel,
                                          EncodeBitstream(fv, m)[1], q)
  /\ UNCHANGED <<fv, fshape, flevel, outsideFrame>>

InitFrame ==
  /\ FrameInit /\ PipeIdle /\ QimIdle /\ CodecIdle /\ PosIdle /\ ValidIdle
  /\ CtlIdle /\ RoundTripIdle /\ ScanIdle /\ ConfigIdle

NextFrame == \E m \in Messages, q \in Steps : EncodeFlat(m, q)

SpecFrame == InitFrame /\ [][NextFrame]_vars

(***************************************************************************)
(* The codec of unicode_handler.py on its own: a text is turned into bits  *)
(* and the bits are turned back into a text, as run_diagnostics does.      *)
(***************************************************************************)
\* code points of 1, 2, 3 and 4 UTF-8 bytes, NUL and U+FFFD among them
RoundTripAlphabet == {0, 65, 233, 8364, 65533, 128512}

RoundTripInit ==
  /\ rtext \in TextsUpTo(RoundTripAlphabet, MaxCodecLen)
  /\ rbits = <<>> /\ rback = <<>> /\ rpc = "start"

\* binary = text_to_binary_unicode(text)
UnicodeToBinary ==
  /\ rpc = "start"
  /\ rbits' = TextToBinaryUnicode(rtext)
  /\ rpc' = "bits"
  /\ UNCHANGED <<rtext, rback, outsideRoundTrip>>

\* decoded = binary_to_text_unicode(binary)
BinaryToUnicode ==
  /\ rpc = "bits"
  /\ rback' = BinaryToTextUnicode(rbits)
  /\ rpc' = "done"
  /\ UNCHANGED <<rtext, rbits, outsideRoundTrip>>

InitRoundTrip ==
  /\ RoundTripInit /\ PipeIdle /\ QimIdle /\ CodecIdle /\ PosIdle /\ ValidIdle
  /\ CtlIdle /\ FrameIdle /\ ScanIdle /\ ConfigIdle

NextRoundTrip == UnicodeToBinary \/ BinaryToUnicode

SpecRoundTrip == InitRoundTrip /\ [][NextRoundTrip]_vars

(***************************************************************************)
(* The length of decode's scan on carriers with more positions than the    *)
(* scan cap: only the number of bits collected is kept, and the stop at a  *)
(* terminator may come after any bit from the eighth on.                   *)
(***************************************************************************)
ScanVariants == {"DCT", "Wavelet", "DFT", "LBP", "AudioDCT", "AudioWavelet"}

\* one carrier with more positions than the cap and one with fewer
ScanShapes(v) ==
  CASE v = "DCT" -> {<<1800, 1800>>, <<16, 24>>}
    [] v = "Wavelet" -> {<<224, 224>>, <<3, 5>>}
    [] v = "DFT" -> {<<2048, 2048>>, <<16, 64>>}
    [] v = "LBP" -> {<<400, 400>>, <<10, 20>>}
    [] v = "AudioDCT" -> {<<1, 1048576>>, <<1, 24576>>}
    [] OTHER -> {<<1, 10500>>, <<1, 24>>}

\* the number of positions decode's loops run over: Len(DecPositions(v, h, w))
ScanAvailable(v, h, w) ==
  CASE v = "DCT" ->
         RangeLen(0, h - BlockSize + 1, BlockSize) * RangeLen(0, w - BlockSize + 1, BlockSize)
    [] v = "DFT" ->
         LET b == DftBand(h, w)
         IN  RangeLen(b.r_min, b.r_max, 1) * RangeLen(b.c_min, b.c_max, 1)
    [] v = "LBP" ->
         RangeLen(h \div 8, h - (h \div 8), StrideY) * RangeLen(w \div 8, w - (w \div 8), StrideX)
    [] v = "AudioDCT" -> w \div AudioBlockSize
    [] v = "AudioWavelet" -> w
    [] OTHER -> h * w

\* lengths of the bitstream encode was given: a short one, and one beyond
\* the cap of decode for the variants whose carriers can hold it
ScanLengths(v) ==
  CASE v = "AudioDCT" -> {24, 1016}
    [] v = "LBP" -> {24, 10008}
    [] OTHER -> {24}

ScanInit ==
  /\ sv \in ScanVariants
  /\ sshape \in ScanShapes(sv)
  /\ slen \in ScanLengths(sv)
  /\ sn = 0
  /\ spc = "scanning"

ScanMayRead ==
  sn < ScanAvailable(sv, sshape[1], sshape[2]) /\ ScanContinues(sv, sshape[1], sshape[2], sn)

\* one pass of decode's loop that collects a bit and goes on
ScanStep ==
  /\ spc = "scanning" /\ ScanMayRead
  /\ sn' = sn + 1
  /\ UNCHANGED <<sv, sshape, slen, spc, outsideScan>>

\* decode returns: at a terminator, or when its loop may not read on
ScanReturn ==
  /\ spc = "scanning"
  /\ sn >= TerminatorLen(sv) \/ ~ScanMayRead
  /\ spc' = "returned"
  /\ UNCHANGED <<sv, sshape, slen, sn, outsideScan>>

InitScan ==
  /\ ScanInit /\ PipeIdle /\ QimIdle /\ CodecIdle /\ PosIdle /\ ValidIdle
  /\ CtlIdle /\ FrameIdle /\ RoundTripIdle /\ ConfigIdle

NextScan == ScanStep \/ ScanReturn

SpecScan == InitScan /\ [][NextScan]_vars

(***************************************************************************)
(* The settings of stego_config.py.  DEFAULT_CONFIG is an object in memory *)
(* that the functions hand out; a section is the dict of one method, here  *)
(* with its strength parameter only.  In the settings file a section is    *)
(* absent (0) or holds a value.                                            *)
(***************************************************************************)
ConfigMethods == {"DCT", "DFT", "LBP"}

ConfigValues == {10, 20}

\* DEFAULT_CONFIG as the module defines it
OriginalDefaults == [m \in ConfigMethods |-> 10]

NoSections == [m \in ConfigMethods |-> 0]

\* load_config(): the object it returns
LoadConfig(defaults, state, file) ==
  IF state # "ok" THEN defaults
  ELSE [m \in ConfigMethods |-> IF file[m] = 0 THEN defaults[m] ELSE file[m]]

\* the sections of the object load_config() returns that are the very dicts
\* of DEFAULT_CONFIG: all of them when DEFAULT_CONFIG itself is returned,
\* else the ones the file lacked
SharedWithDefaults(state, file) ==
  IF state # "ok" THEN ConfigMethods ELSE {m \in ConfigMethods : file[m] = 0}

ConfigInit ==
  /\ cfgDefaults = OriginalDefaults
  /\ cfgState \in {"ok", "corrupt"}
  /\ cfgFile \in [ConfigMethods -> ConfigValues \cup {0}]
  /\ cfgState = "corrupt" => cfgFile = NoSections
  /\ cfgReturned = NoSections
  /\ cfgOp = "import"

\* load_config()
LoadConfigCall ==
  /\ cfgReturned' = LoadConfig(cfgDefaults, cfgState, cfgFile)
  /\ cfgOp' = "load_config"
  /\ UNCHANGED <<cfgDefaults, cfgState, cfgFile, outsideConfig>>

\* get_method_params(method)
GetMethodParams(method) ==
  /\ cfgReturned' = [m \in ConfigMethods |->
                       IF m = method THEN LoadConfig(cfgDefaults, cfgState, cfgFile)[m] ELSE 0]
  /\ cfgOp' = "get_method_params"
  /\ UNCHANGED <<cfgDefaults, cfgState, cfgFile, outsideConfig>>

\* update_method_param(method, param, value)
UpdateMethodParam(method, value) ==
  LET config == LoadConfig(cfgDefaults, cfgState, cfgFile)
      updated == [config EXCEPT ![method] = value]
  IN  /\ cfgDefaults' = IF method \in SharedWithDefaults(cfgState, cfgFile)
                          THEN [cfgDefaults EXCEPT ![method] = value]
                          ELSE cfgDefaults
      /\ cfgState' = "ok"
      /\ cfgFile' = updated
      /\ cfgReturned' = updated
      /\ cfgOp' = "update_method_param"
      /\ UNCHANGED outsideConfig

\* reset_to_defaults()
ResetToDefaults ==
  /\ cfgState' = "ok"
  /\ cfgFile' = cfgDefaults
  /\ cfgReturned' = cfgDefaults
  /\ cfgOp' = "reset_to_defaults"
  /\ UNCHANGED <<cfgDefaults, outsideConfig>>

\* the settings file is deleted, or overwritten with something unreadable
LoseSettingsFile(state) ==
  /\ cfgState = "ok"
  /\ cfgState' = state
  /\ cfgFile' = NoSections
  /\ UNCHANGED <<cfgDefaults, cfgReturned, cfgOp, outsideConfig>>

InitConfig ==
  /\ ConfigInit /\ PipeIdle /\ QimIdle /\ CodecIdle /\ PosIdle /\ ValidIdle
  /\ CtlIdle /\ FrameIdle /\ RoundTripIdle /\ ScanIdle

NextConfig ==
  \/ LoadConfigCall
  \/ \E method \in ConfigMethods : GetMethodParams(method)
  \/ \E method \in ConfigMethods, value \in ConfigValues : UpdateMethodParam(method, value)
  \/ ResetToDefaults
  \/ \E state \in {"missing", "corrupt"} : LoseSettingsFile(state)

SpecConfig == InitConfig /\ [][NextConfig]_vars

(***************************************************************************)
(* Properties                                                              *)
(***************************************************************************)
\* a decode call has returned (or raised) and no call is running
DecodeReturned == pc = "idle" /\ decStatus \in {"shortcut", "terminator", "exhausted"}

\* C1: Round trip.  For every ASCII message without NUL whose bitstream fits
\* the capacity, and for every domain variant, decoding the carrier encode
\* produced returns exactly the message (the transform taken as lossless:
\* decode sees the coefficients encode left).
C1_RoundTrip ==
  (variant \in DomainVariants /\ encStatus = "ok" /\ DecodeReturned) => result = msg

\* C2: decode extracts the message solely from the carrier's coefficients:
\* two decode runs of the same stego carrier (here one that encode produced)
\* with the same parameters return the same, whatever side files exist next
\* to the carrier.
C2_SideFileIndependence ==
  (encStatus = "ok" /\ DecodeReturned /\ prevResult # NoResult) => result = prevResult

\* C3: Capacity boundary.  encode fails with CapacityExceeded if and only if
\* the bitstream (message bits plus terminator) is longer than the number of
\* positions; at a length equal to the capacity it succeeds and has written
\* every bit.
C3_CapacityBoundary ==
  /\ encStatus # "none" =>
       ((encStatus = "CapacityExceeded") <=> (Len(bits) > Len(encPos)))
  /\ (encStatus # "none" /\ pc # "encoding" /\ Len(bits) <= Len(encPos)) =>
       (encStatus = "ok" /\ idx = Len(bits))

\* an encode whose bitstream length equals the capacity exactly has succeeded
C3_Witness ==
  encStatus = "ok" /\ msg # <<>> /\ Len(bits) = Len(encPos) /\ idx = Len(bits)

\* C4: CapacityExceeded is raised before any mutation: when encode fails with
\* it, no coefficient has been written, no stego carrier produced and no
\* other file created or changed by that call.
C4_NoMutationOnCapacityExceeded ==
  encStatus = "CapacityExceeded" =>
    (work = cover /\ stegoFile = snap.stego /\ files = snap.files)

\* C5: Quantization invariants.  For any coefficient and any step > 0, the
\* coefficient written for bit 0 is congruent to 0 mod step and the one
\* written for bit 1 is congruent to step/2 mod step, in every variant (LBP
\* and odd steps included).  In half-units: 0, or step, mod 2*step.
C5_QuantizationCongruence ==
  qpc \in {"written", "read"} => qstored % (2 * qstep) = qbit * qstep

\* C6: The modulator's read inverts its write: for every coefficient, every
\* step > 0 and every bit b, the bit read from the written coefficient is b.
C6_ReadInvertsWrite == qpc = "read" => qread = qbit

\* the UTF-8 bytes of the text, each as 8 bits most-significant first
Utf8Bits(text) ==
  LET bytes == Utf8Bytes(text)
  IN  Flatten([i \in 1..Len(bytes) |-> ByteBits(bytes[i])])

\* C7: textToBits(message) is the UTF-8 bytes of the message, each byte as 8
\* bits most-significant first, followed by the 8-bit zero terminator; its
\* length is 8 * (number of UTF-8 bytes + 1), for the empty message and for
\* code points above 255 too.
C7_TextToBitsIsUtf8 ==
  cpc = "done" =>
    /\ cbits = Utf8Bits(ctext) \o Zeros(8)
    /\ Len(cbits) = 8 * (Len(Utf8Bytes(ctext)) + 1)

\* C8: The decoder tests for the terminator only at byte boundaries: when it
\* stops on a terminator the number of collected bits is a multiple of 8, and
\* so is the length of the prefix handed to the bits-to-text conversion.
C8_TerminatorAtByteBoundary ==
  decStatus = "terminator" =>
    (Len(extracted) % 8 = 0 /\ Len(DropLast(extracted, 8)) % 8 = 0)

\* C9: When the positions (or the scan cap) are exhausted without a
\* terminator, decode returns the best-effort text of the bits collected:
\* always a string, never null, and empty only when no bit was collected.
C9_ExhaustedReturnsString ==
  decStatus = "exhausted" =>
    (result # None /\ (result = <<>> => extracted = <<>>))

\* C10: Position determinism.  For the same carrier shape and parameters the
\* positions decode computes are those encode computed, element by element,
\* so the coefficient read for bit i is the one written for bit i.
C10_PositionDeterminism ==
  (encStatus = "ok" /\ decStatus \in {"running", "terminator", "exhausted"}) =>
    /\ decPos = encPos
    /\ \A i \in 1..nRead : i <= idx => decPos[i] = encPos[i]

\* decode has read, after a successful encode, coefficients at more than one
\* row and column of positions
C10_Witness ==
  /\ encStatus = "ok" /\ decStatus = "terminator" /\ nRead >= 8
  /\ \E i, j \in 1..nRead : decPos[i][1] # decPos[j][1]
  /\ \E i, j \in 1..nRead : decPos[i][2] # decPos[j][2]

\* C11: For every carrier shape the capacity figure of encode's check equals
\* the number of positions encode enumerates, and no coordinate occurs twice
\* in the position list; also for dimensions smaller than, or no multiple
\* of, the block size or stride.
C11_CapacityIsPositionCount ==
  ppc = "done" =>
    /\ Len(ppos) = pcap
    /\ \A i, j \in 1..Len(ppos) : i # j => ppos[i] # ppos[j]

\* a DCT carrier of 17 x 12 (neither a multiple of 8) has exactly two blocks
C11_Witness ==
  /\ ppc = "done" /\ pv = "DCT" /\ pshape = <<17, 12>>
  /\ pcap = 2 /\ ppos = <<<<0, 0>>, <<8, 0>>>>

\* C12: The plausibility check accepts a decoded result if and only if its
\* length is greater than 0 and the number of its characters with code point
\* in 32..126, divided by its length, is strictly greater than 0.7; a result
\* with exactly 70% printable characters is rejected.
C12_PlausibleIffOverSeventyPercent ==
  vpc = "done" =>
    (vok <=> (vmsg # None /\ Len(vmsg) > 0
                /\ 10 * PrintableCount(vmsg) > 7 * Len(vmsg)))

\* C13: when neither the first decode nor any step of the ladder gives a
\* plausible result, the controller hands on the result of the first decode
\* as it was, and no error is raised.
C13_ReturnsInitialResultWhenNothingPlausible ==
  kpc \in {"Exhausted", "Failed"} =>
    (kreturned # Raised /\ kreturned = kinitial)

\* C14: a plausible result of the first decode is returned as it is and no
\* step of the ladder is decoded.
C14_LadderOnlyAfterRejection ==
  IsValidMessage(kinitial) =>
    (kpc = "Accepted" /\ kreturned = kinitial /\ kdecoded = <<>>)

Rejected == kinitial # NoResult /\ kinitial # Raised /\ ~IsValidMessage(kinitial)

Plausible(outcome) == outcome # Raised /\ IsValidMessage(outcome)

ExpectedCandidates ==
  SelectSeq(TestStrengths(kmethod), LAMBDA t : Abs(t - kstrength) >= 10)

\* C15: after a rejected first decode the steps decoded are the steps of the
\* ladder at least 0.1 away from the first strength, in the order of the
\* ladder, up to and including the first plausible result; that result is
\* returned, nothing is decoded after it, and no strength is decoded twice.
C15_CandidatesInLadderOrder ==
  Rejected =>
    /\ Len(kdecoded) <= Len(ExpectedCandidates)
    /\ kdecoded = SubSeq(ExpectedCandidates, 1, Len(kdecoded))
    /\ (klast = NoResult) <=> (kdecoded = <<>>)
    /\ kpc = "Accepted" =>
         /\ kdecoded # <<>>
         /\ kplausible = 1
         /\ Plausible(klast)
         /\ kreturned = klast
    /\ kpc = "TryCandidate" => kplausible = 0
    /\ kpc = "Exhausted" => (kdecoded = ExpectedCandidates /\ kplausible = 0)
    /\ \A i, j \in 1..Len(kdecoded) : i # j => kdecoded[i] # kdecoded[j]
    /\ \A i \in 1..Len(kdecoded) : kdecoded[i] # kstrength

C15_Witness ==
  /\ kpc = "Accepted" /\ kmethod = "DFT" /\ kstrength = 1000
  /\ kinitial = <<1, 1>>
  /\ kdecoded = <<100, 150, 200, 300, 500, 800, 1200>>
  /\ klast = <<65, 66>>
  /\ kreturned = <<65, 66>>

\* C16: every run of the controller is at the first decode, at a step of the
\* ladder, or ended as accepted or as exhausted, with at most one decode more
\* than the ladder has steps, also when a decode raises.
C16_EndsAcceptedOrExhausted ==
  /\ kpc \in {"TryInitial", "TryCandidate", "Accepted", "Exhausted"}
  /\ Len(kdecoded) <= Len(TestStrengths(kmethod))
  /\ kpc \in {"Accepted", "Exhausted"} \/ ENABLED NextCtl

\* C17: encode leaves alone what it assigns no bit to: a coefficient or sample
\* outside the positions that were assigned a bit has in the stego carrier the
\* value it has in the cover.
C17_UnassignedPartUnchanged ==
  (fpc = "done" /\ fstatus = "ok") =>
    fframe = FrameOfCover(fv, fshape[1], fshape[2], flevel)

\* C18: nothing persists between calls: encode leaves no file behind besides
\* the stego carrier, and two decodes of the same carrier give the same
\* result whatever was called between them.
C18_NoStatePersistsBetweenCalls ==
  /\ \A f \in SideFileNames : files[f] = NoFile
  /\ (DecodeReturned /\ prevResult # NoResult) => result = prevResult

\* C19: a carrier that cannot be loaded makes decode abort with an error,
\* never return a string.
C19_LoadFailureAborts ==
  (DecodeReturned /\ stegoFile = NoCarrier) => result = Raised

\* C20: binary_to_text_unicode(text_to_binary_unicode(t)) = t for every
\* well-formed text t, the empty text and texts outside ASCII included, and
\* the binary form has 8 bits for each UTF-8 byte of t.
C20_UnicodeCodecRoundTrip ==
  /\ rpc \in {"bits", "done"} => Len(rbits) = 8 * Len(Utf8Bytes(rtext))
  /\ rpc = "done" => rback = rtext

C20_Witness ==
  /\ rpc = "done" /\ rtext = <<8364, 128512>>
  /\ Len(rbits) = 56 /\ rback = <<8364, 128512>>

\* C21: the bit read from a coefficient is 1 exactly when the fractional part
\* r of coefficient / step, taken in [0,1), has 0.25 <= r <= 0.75, both bounds
\* included, and 0 otherwise, in every variant.
C21_ReadBitInclusiveQuarterBand ==
  qpc = "probed" =>
    LET d == 2 * qstep
        m == qc % d
    IN  (qread = 1) <=> (4 * m >= d /\ 4 * m <= 3 * d)

\* C22: for bit 0 the value written is the multiple of the step nearest to the
\* coefficient, at most half a step away from it; for bit 1 the value written
\* is at most one step away from the coefficient.
C22_WriteMovesAtMostHalfStep ==
  qpc = "written" =>
    /\ qbit = 0 => (qstored % (2 * qstep) = 0 /\ Abs(qstored - qc) <= qstep)
    /\ qbit = 1 => Abs(qstored - qc) <= 2 * qstep

\* C23: the bit index advances only when a bit is written: every bit that
\* encode has consumed so far stands in the coefficient at its position, a
\* degenerate position being skipped without taking a bit.
C23_BitConsumedOnlyWhenWritten ==
  pc = "encoding" =>
    \A i \in 1..idx :
      work[encPos[i]] = NewCoefficient(variant, cover[encPos[i]], bits[i], step)

\* C24: decode never collects more bits than its cap: 50000 for image DCT,
\* Wavelet and DFT, 10000 for LBP and audio Wavelet, 1000 blocks for audio DCT.
C24_ScanWithinCap ==
  sn <= (CASE sv \in {"DCT", "Wavelet", "DFT"} -> ImageScanCap
           [] sv = "LBP" -> LbpScanCap
           [] sv = "AudioWavelet" -> AudioWaveletScanCap
           [] OTHER -> AudioDctBlockCap)

\* the capacity check of encode lets a bitstream of slen bits pass (the
\* capacity of LBP is the length of the grid both encode and decode build)
ScanEncodeAccepts ==
  IF sv = "LBP" THEN slen <= ScanAvailable(sv, sshape[1], sshape[2])
  ELSE ~CapacityExceeded(sv, sshape[1], sshape[2], slen)

\* C25: for a message encode accepts, the cap of decode's scan is at least the
\* length of the bitstream: as long as decode has collected fewer bits than
\* were embedded, its loop may read the next one.
C25_ScanCapCoversAcceptedBitstream ==
  (ScanEncodeAccepts /\ spc = "scanning" /\ sn < slen) => ScanMayRead

\* C26: the first decode and every decode of the ladder run the decode of the
\* adapter selected, the one whose encode made the stego carrier; only the
\* strength differs between the attempts.
C26_AttemptsUseSelectedAdapter ==
  /\ kinitial # NoResult => InitialDecoder(kmethod) = EncodeAdapter(kmethod)
  /\ kdecoded # <<>> => CandidateDecoder(kmethod) = EncodeAdapter(kmethod)

\* the pixel at which the block of a DCT or SVD position starts
BlockOrigin(v, p) == IF v = "SVD" THEN <<p[1] * BlockSize, p[2] * BlockSize>> ELSE p

\* C27: for DCT and SVD the positions run row-major over the blocks inside
\* the region that leaves out the outer 1/8 border: no block of the border is
\* in the list, and a 64 x 64 carrier has capacity 49.
C27_BlocksAvoidBorder ==
  (ppc = "done" /\ pv \in {"DCT", "SVD"}) =>
    /\ pshape = <<64, 64>> => pcap = 49
    /\ \A i \in 1..Len(ppos) :
         LET o == BlockOrigin(pv, ppos[i])
         IN  /\ o[1] >= pshape[1] \div 8
             /\ o[1] + BlockSize <= pshape[1] - (pshape[1] \div 8)
             /\ o[2] >= pshape[2] \div 8
             /\ o[2] + BlockSize <= pshape[2] - (pshape[2] \div 8)
    /\ \A i \in 1..(Len(ppos) - 1) : PairLeq(ppos[i], ppos[i + 1])

\* C28: for DFT and every carrier size the position list leaves out the
\* zero-frequency coordinate (rows // 2, cols // 2), every position lies
\* inside the spectrum, and the positions are a full rectangle of rows and
\* columns that has the zero-frequency point at its centre: the extent of the
\* rectangle reaches as far to either side of that point, in rows and in
\* columns (the half-open ranges of the code allowed for by one unit).
C28_DftBandAroundZeroFrequency ==
  (ppc = "done" /\ pv = "DFT") =>
    LET rows == {ppos[i][1] : i \in 1..Len(ppos)}
        cols == {ppos[i][2] : i \in 1..Len(ppos)}
        crow == pshape[1] \div 2
        ccol == pshape[2] \div 2
    IN  /\ \A i \in 1..Len(ppos) : ppos[i] # <<crow, ccol>>
        /\ \A r \in rows : 0 <= r /\ r < pshape[1]
        /\ \A c \in cols : 0 <= c /\ c < pshape[2]
        /\ {ppos[i] : i \in 1..Len(ppos)} = rows \X cols
        /\ \A r \in rows : (2 * crow - r) \in rows \/ (2 * crow - r - 1) \in rows
        /\ \A c \in cols : (2 * ccol - c) \in cols \/ (2 * ccol - c - 1) \in cols

\* C29: for LBP, for every pixel value, bit and strength, the value encode
\* stores is a pixel value 0..255 and decode reads from it the bit written.
C29_LbpStoredPixelReadsBack ==
  (qv = "LBP" /\ qpc = "read") =>
    /\ 0 <= qstored \div 2 /\ qstored \div 2 <= 255
    /\ qread = qbit

\* C30: after any calls of load_config, get_method_params and
\* update_method_param the built-in defaults are what the module defined, and
\* reset_to_defaults stores and returns those defaults for every method.
C30_DefaultsNeverChange ==
  /\ cfgDefaults = OriginalDefaults
  /\ cfgOp = "reset_to_defaults" =>
       (cfgFile = OriginalDefaults /\ cfgReturned = OriginalDefaults)

=============================================================================
